---- MODULE Spec2Model ----
(***************************************************************************)
(* coco-rasa: the CoCoMappingPolicy decision procedure, its persistence of *)
(* the priority, and the coco_run exchange adapter, as state machines over *)
(* the host framework's conversation tracker.                              *)
(*                                                                         *)
(* Python values are encoded as strings: None is "<None>", the integer 0   *)
(* is "<0>", the boolean False is "<False>", a str is itself.  A policy    *)
(* name is a sequence of tokens ("policy_0_" then the pieces of the class  *)
(* name); the policy None is the one-token sequence <<None>>.              *)
(***************************************************************************)
EXTENDS Integers, Sequences, FiniteSets, TLC

VARIABLES tracker, phase, result, ran, exchange_call, dispatched,
          policy, dirs, files, loaded, persisted

vars == <<tracker, phase, result, ran, exchange_call, dispatched,
          policy, dirs, files, loaded, persisted>>

tracker_vars == <<tracker, phase, result, ran, exchange_call, dispatched>>
persist_vars == <<policy, dirs, files, loaded, persisted>>

----------------------------------------------------------------------------
(* Values *)

None == "<None>"

ACTION_LISTEN_NAME == "action_listen"

\* Python truthiness of a slot value or a string
Truthy(v) == v \notin {None, "", "<0>", "<False>"}

\* the domain's action registry, in index order (index 0 is the first)
action_names == <<ACTION_LISTEN_NAME, "generic_coco", "utter_greet">>

num_actions == Len(action_names)

\* the actions served by a GenericCoCoAction (its component_name)
Components == {"generic_coco"}

\* a name no action of the domain has
UnlistedName == "unlisted_coco"

ActionNames == {action_names[i] : i \in 1..num_actions} \cup {UnlistedName}

\* what the active_component slot may hold
MarkerValues == {None, ""} \cup ActionNames

\* what the other slot may hold
InfoValues == {None, "", "<0>", "<False>", "paris"}

SlotNames == {"active_component", "info"}

SlotValues(k) == IF k = "active_component" THEN MarkerValues ELSE InfoValues

\* type(self).__name__
SelfTypeName == <<"CoCoMappingPolicy">>

\* the names the ensemble gives its policies, "policy_<i>_<class name>": this
\* policy, a policy of another class, and a policy of another class whose
\* name ends like this one's (MyCoCoMappingPolicy)
SelfPolicyName == <<"policy_0_">> \o SelfTypeName
MemoPolicyName == <<"policy_1_", "MemoizationPolicy">>
LookalikePolicyName == <<"policy_2_", "My">> \o SelfTypeName

PolicyNames == {<<None>>, SelfPolicyName, MemoPolicyName, LookalikePolicyName}

\* the class a policy name was made from
PolicyClass(p) == IF Len(p) >= 2 THEN Tail(p) ELSE <<>>

UserTexts == {"hi"}

----------------------------------------------------------------------------
(* The tracker and its events *)

ActionExecuted(name, pol) ==
    [event |-> "action", name |-> name, policy |-> pol, key |-> None, value |-> None]

SlotSet(key, value) ==
    [event |-> "slot", name |-> None, policy |-> <<>>, key |-> key, value |-> value]

UserUttered(text) ==
    [event |-> "user", name |-> None, policy |-> <<>>, key |-> None, value |-> text]

NoEvent == [exists |-> FALSE, action_name |-> None, policy |-> <<>>]

\* a tracker with no events applied, every slot at its initial value None
FreshTracker ==
    [latest_action_name |-> None,
     last_action_event |-> NoEvent,
     slots |-> [k \in SlotNames |-> None],
     latest_message |-> None]

\* a variant of Update that sets the latest action name and leaves the
\* ActionExecuted event out of the log
UpdateDroppingEvent(tr, e) ==
    IF e.event = "action"
    THEN [tr EXCEPT !.latest_action_name = e.name]
    ELSE IF e.event = "slot"
    THEN IF e.key \in DOMAIN tr.slots
         THEN [tr EXCEPT !.slots[e.key] = e.value]
         ELSE tr
    ELSE [tr EXCEPT !.latest_message = e.value]

\* DialogueStateTracker.update: apply one event to the tracker.  An executed
\* action becomes the latest action and the last ActionExecuted event; a slot
\* event sets a slot the domain defines; a user event is the latest message.
Update(tr, e) ==
    IF e.event = "action"
    THEN [tr EXCEPT !.latest_action_name = e.name,
                    !.last_action_event =
                        [exists |-> TRUE, action_name |-> e.name, policy |-> e.policy]]
    ELSE IF e.event = "slot"
    THEN IF e.key \in DOMAIN tr.slots
         THEN [tr EXCEPT !.slots[e.key] = e.value]
         ELSE tr
    ELSE [tr EXCEPT !.latest_message = e.value]

\* the events of a list applied in order
RECURSIVE UpdateAll(_, _)
UpdateAll(tr, evs) ==
    IF evs = <<>> THEN tr ELSE UpdateAll(Update(tr, Head(evs)), Tail(evs))

\* tracker.get_last_event_for(ActionExecuted)
get_last_event_for(tr) == tr.last_action_event

----------------------------------------------------------------------------
(* CoCoMappingPolicy.predict_action_probabilities *)

\* index_for_action's "no such action"
NoIndex == -1

\* domain.index_for_action: the 0-based index of the name, or None
index_for_action(name) ==
    IF \E i \in 1..num_actions : action_names[i] = name
    THEN (CHOOSE i \in 1..num_actions : action_names[i] = name) - 1
    ELSE NoIndex

\* [0.0] * domain.num_actions
ZeroPrediction == [i \in 0..(num_actions - 1) |-> 0]

Returned(prediction, warned) ==
    [prediction |-> prediction, warned |-> warned, raised |-> "none"]

Raised(what) ==
    [prediction |-> ZeroPrediction, warned |-> FALSE, raised |-> what]

\* str.endswith
EndsWith(s, suffix) ==
    /\ Len(suffix) <= Len(s)
    /\ SubSeq(s, Len(s) - Len(suffix) + 1, Len(s)) = suffix

\* a variant that accepts the action of any policy
PredictedByAnyPolicy(pol) == pol \notin {<<>>, <<None>>}

\* a variant that compares the whole policy name with the class name
PredictedByExactName(pol) == pol = SelfTypeName

\* latest_action.policy and latest_action.policy.endswith(type(self).__name__)
PredictedByThisPolicy(pol) ==
    /\ pol \notin {<<>>, <<None>>}
    /\ EndsWith(pol, SelfTypeName)

\* a variant that sets the entry after the action's index
ListenBranchShifted(active_component) ==
    IF Truthy(active_component)
    THEN LET idx == index_for_action(active_component)
         IN IF idx = NoIndex
            THEN Returned(ZeroPrediction, TRUE)
            ELSE Returned([ZeroPrediction EXCEPT ![(idx + 1) % num_actions] = 1], FALSE)
    ELSE Returned(ZeroPrediction, FALSE)

\* a variant that gives no warning for an unknown action
ListenBranchSilent(active_component) ==
    IF Truthy(active_component)
    THEN LET idx == index_for_action(active_component)
         IN IF idx = NoIndex
            THEN Returned(ZeroPrediction, FALSE)
            ELSE Returned([ZeroPrediction EXCEPT ![idx] = 1], FALSE)
    ELSE Returned(ZeroPrediction, FALSE)

\* the branch taken when the latest action is action_listen
ListenBranch(active_component) ==
    IF Truthy(active_component)
    THEN LET idx == index_for_action(active_component)
         IN IF idx = NoIndex
            THEN Returned(ZeroPrediction, TRUE)
            ELSE Returned([ZeroPrediction EXCEPT ![idx] = 1], FALSE)
    ELSE Returned(ZeroPrediction, FALSE)

\* a variant that predicts the mapped action again instead of action_listen
MappedBranchRepeating(tr, active_component) ==
    LET latest_action == get_last_event_for(tr)
    IN IF ~latest_action.exists
       THEN Raised("AttributeError")
       ELSE IF latest_action.action_name # active_component
       THEN Raised("AssertionError")
       ELSE IF PredictedByThisPolicy(latest_action.policy)
               /\ index_for_action(active_component) # NoIndex
       THEN Returned([ZeroPrediction EXCEPT ![index_for_action(active_component)] = 1],
                     FALSE)
       ELSE Returned(ZeroPrediction, FALSE)

\* the branch taken when the latest action is the active component: the
\* assertion on the last ActionExecuted event, then the check of its policy
MappedBranch(tr, active_component) ==
    LET latest_action == get_last_event_for(tr)
    IN IF ~latest_action.exists
       THEN Raised("AttributeError")
       ELSE IF latest_action.action_name # active_component
       THEN Raised("AssertionError")
       ELSE IF PredictedByThisPolicy(latest_action.policy)
       THEN Returned([ZeroPrediction EXCEPT ![index_for_action(ACTION_LISTEN_NAME)] = 1],
                     FALSE)
       ELSE Returned(ZeroPrediction, FALSE)

\* a variant that predicts the marker whatever the latest action is
predict_whenever_marked(tr) ==
    LET active_component == tr.slots["active_component"]
    IN IF Truthy(active_component) /\ index_for_action(active_component) # NoIndex
       THEN Returned([ZeroPrediction EXCEPT ![index_for_action(active_component)] = 1],
                     FALSE)
       ELSE Returned(ZeroPrediction, FALSE)

\* predict_action_probabilities: the prediction, whether a warning was given,
\* and the exception raised if any
predict_action_probabilities(tr) ==
    LET active_component == tr.slots["active_component"]
    IN IF tr.latest_action_name = ACTION_LISTEN_NAME
       THEN ListenBranch(active_component)
       ELSE IF tr.latest_action_name = active_component /\ active_component # None
       THEN MappedBranch(tr, active_component)
       ELSE Returned(ZeroPrediction, FALSE)

----------------------------------------------------------------------------
(* coco_run and GenericCoCoAction *)

\* the slots of the action server's tracker that pass "if slot"
coco_in_context(slots) ==
    [k \in {n \in DOMAIN slots : Truthy(slots[n])} |-> slots[k]]

\* one SlotSet per item of coco_resp.updated_context, in the mapping's order
returned_slots(updated_context) ==
    [i \in 1..Len(updated_context) |->
        SlotSet(updated_context[i][1], updated_context[i][2])]

\* coco_run: the call made to coco.exchange, the message uttered and the
\* events returned
coco_run(component_name, tr, coco_resp) ==
    LET active_component ==
            IF ~coco_resp.component_done THEN component_name ELSE ""
    IN [call |-> [component |-> component_name,
                  user_input |-> tr.latest_message,
                  context |-> coco_in_context(tr.slots),
                  flatten_context |-> TRUE],
        message |-> coco_resp.response,
        events |-> <<SlotSet("active_component", active_component)>>
                       \o returned_slots(coco_resp.updated_context)]

\* what an exchange response may carry under each key of updated_context
ContextValues(k) ==
    IF k = "active_component" THEN {"", "generic_coco", UnlistedName} ELSE {"paris"}

\* the mappings an exchange response may carry as updated_context: ordered
\* key/value items with distinct keys
UpdatedContexts ==
    {<<>>}
    \cup {<<<<"active_component", a>>>> : a \in ContextValues("active_component")}
    \cup {<<<<"info", b>>>> : b \in ContextValues("info")}
    \cup {<<<<"active_component", a>>, <<"info", b>>>> :
             a \in ContextValues("active_component"), b \in ContextValues("info")}
    \cup {<<<<"info", b>>, <<"active_component", a>>>> :
             a \in ContextValues("active_component"), b \in ContextValues("info")}

Responses ==
    [response : {"ok"}, updated_context : UpdatedContexts, component_done : BOOLEAN]

NoCall ==
    [made |-> FALSE, component |-> None, user_input |-> None,
     context |-> <<>>, slots_before |-> [k \in SlotNames |-> None]]

NoRun == [valid |-> FALSE, component |-> None, done |-> FALSE, by_self |-> FALSE]

NoResult == Returned(ZeroPrediction, FALSE)

----------------------------------------------------------------------------
(* Persistence of the priority *)

\* __init__'s default priority
DefaultPriority == 6

\* the largest priority a policy is constructed with
MaxPriority == 11

Priorities == 0..MaxPriority

Paths == {"models/a", "models/b"}

NoFile == [exists |-> FALSE, content |-> <<>>]

\* the decimal digits json writes for a non-negative int
RECURSIVE IntToDigits(_)
IntToDigits(n) ==
    IF n < 10 THEN <<n>> ELSE IntToDigits(n \div 10) \o <<n % 10>>

\* the int json reads from decimal digits
RECURSIVE DigitsToInt(_)
DigitsToInt(ds) ==
    IF Len(ds) = 1 THEN ds[1]
    ELSE DigitsToInt(SubSeq(ds, 1, Len(ds) - 1)) * 10 + ds[Len(ds)]

\* json text of {"priority": p}
json_dumps(meta) == <<"priority">> \o IntToDigits(meta.priority)

json_loads(text) == [priority |-> DigitsToInt(Tail(text))]

\* cls(**meta): the priority of the policy constructed from the metadata
cls(meta) ==
    IF "priority" \in DOMAIN meta THEN meta.priority ELSE DefaultPriority

\* the empty metadata, meta = {}
EmptyMeta == [k \in {} |-> 0]

\* a variant that looks for the metadata under another file name
load_other_file(path, d, f) == cls(EmptyMeta)

\* load: the priority of the policy load(path) returns
load(path, d, f) ==
    LET meta == IF path \in d /\ f[path].exists
                THEN json_loads(f[path].content)
                ELSE EmptyMeta
    IN cls(meta)

----------------------------------------------------------------------------
(* The state machine *)

Init ==
    /\ tracker = FreshTracker
    /\ phase = "idle"
    /\ result = NoResult
    /\ ran = NoRun
    /\ exchange_call = NoCall
    /\ dispatched = None
    /\ policy = [priority |-> DefaultPriority]
    /\ dirs = {}
    /\ files = [p \in Paths |-> NoFile]
    /\ loaded = [valid |-> FALSE, path |-> None]
    /\ persisted = [p \in Paths |-> [known |-> FALSE, priority |-> 0]]

\* persistence starts with any of the directories already there, none
\* holding a persisted policy
InitPersist ==
    /\ tracker = FreshTracker
    /\ phase = "idle"
    /\ result = NoResult
    /\ ran = NoRun
    /\ exchange_call = NoCall
    /\ dispatched = None
    /\ policy = [priority |-> DefaultPriority]
    /\ dirs \in SUBSET Paths
    /\ files = [p \in Paths |-> NoFile]
    /\ loaded = [valid |-> FALSE, path |-> None]
    /\ persisted = [p \in Paths |-> [known |-> FALSE, priority |-> 0]]

\* an event applied to the tracker ends what was observed of the last step
Forget ==
    /\ phase' = "idle"
    /\ result' = NoResult
    /\ ran' = NoRun
    /\ exchange_call' = NoCall
    /\ dispatched' = None

\* the user says something
UserUtteredEvent(text) ==
    /\ tracker' = Update(tracker, UserUttered(text))
    /\ Forget
    /\ UNCHANGED persist_vars

\* some other action or the tracker API sets a slot
SlotSetEvent(key, value) ==
    /\ tracker' = Update(tracker, SlotSet(key, value))
    /\ Forget
    /\ UNCHANGED persist_vars

\* the host runs an action that returns no events, chosen by the named policy
ActionExecutedEvent(name, pol) ==
    /\ tracker' = Update(tracker, ActionExecuted(name, pol))
    /\ Forget
    /\ UNCHANGED persist_vars

\* the ensemble asks this policy for its prediction
Predict ==
    /\ phase = "idle"
    /\ result' = predict_action_probabilities(tracker)
    /\ phase' = "predicted"
    /\ UNCHANGED <<tracker, ran, exchange_call, dispatched>>
    /\ UNCHANGED persist_vars

\* this policy's one-hot prediction names the action
PredictedHere(name) ==
    /\ phase = "predicted"
    /\ result.raised = "none"
    /\ index_for_action(name) # NoIndex
    /\ result.prediction[index_for_action(name)] = 1

\* GenericCoCoAction.run for a component the host chose to run: the host
\* logs the executed action, then applies the events run returned
RunComponent(component_name, pol, coco_resp) ==
    /\ pol = SelfPolicyName => PredictedHere(component_name)
    /\ LET out == coco_run(component_name, tracker, coco_resp)
       IN /\ tracker' = UpdateAll(Update(tracker, ActionExecuted(component_name, pol)),
                                  out.events)
          /\ exchange_call' = [made |-> TRUE,
                               component |-> out.call.component,
                               user_input |-> out.call.user_input,
                               context |-> out.call.context,
                               slots_before |-> tracker.slots]
          /\ dispatched' = out.message
    /\ ran' = [valid |-> TRUE, component |-> component_name,
               done |-> coco_resp.component_done,
               by_self |-> (pol = SelfPolicyName)]
    /\ phase' = "idle"
    /\ result' = NoResult
    /\ UNCHANGED persist_vars

\* CoCoMappingPolicy(priority)
Construct(p) ==
    /\ policy' = [priority |-> p]
    /\ loaded' = [valid |-> FALSE, path |-> None]
    /\ UNCHANGED <<dirs, files, persisted>>
    /\ UNCHANGED tracker_vars

\* policy.persist(path)
Persist(path) ==
    /\ dirs' = dirs \cup {path}
    /\ files' = [files EXCEPT ![path] =
                    [exists |-> TRUE, content |-> json_dumps([priority |-> policy.priority])]]
    /\ persisted' = [persisted EXCEPT ![path] =
                        [known |-> TRUE, priority |-> policy.priority]]
    /\ UNCHANGED <<policy, loaded>>
    /\ UNCHANGED tracker_vars

\* CoCoMappingPolicy.load(path)
Load(path) ==
    /\ policy' = [priority |-> load(path, dirs, files)]
    /\ loaded' = [valid |-> TRUE, path |-> path]
    /\ UNCHANGED <<dirs, files, persisted>>
    /\ UNCHANGED tracker_vars

Next ==
    \/ \E text \in UserTexts : UserUtteredEvent(text)
    \/ \E key \in SlotNames : \E value \in SlotValues(key) : SlotSetEvent(key, value)
    \/ \E name \in ActionNames : \E pol \in PolicyNames : ActionExecutedEvent(name, pol)
    \/ Predict
    \/ \E c \in Components : \E pol \in PolicyNames : \E r \in Responses :
           RunComponent(c, pol, r)

NextPersist ==
    \/ \E p \in Priorities : Construct(p)
    \/ \E path \in Paths : Persist(path)
    \/ \E path \in Paths : Load(path)

Spec == Init /\ [][Next]_vars

SpecPersist == InitPersist /\ [][NextPersist]_vars

----------------------------------------------------------------------------
(* Properties *)

marker == tracker.slots["active_component"]

Known(name) == \E i \in 1..num_actions : action_names[i] = name

\* the place of a known action in the registry, counted from 0
PositionOf(name) == CHOOSE i \in 0..(num_actions - 1) : action_names[i + 1] = name

OneHot(i) == [j \in 0..(num_actions - 1) |-> IF j = i THEN 1 ELSE 0]

AllZero == [j \in 0..(num_actions - 1) |-> 0]

\* the policy class is this policy's class
AttributedToThis(ev) == ev.exists /\ PolicyClass(ev.policy) = SelfTypeName

\* the policy name has the name of this policy's class as a suffix
NameEndsWithSelf(p) ==
    \E k \in 0..Len(p) : SubSeq(p, k + 1, Len(p)) = SelfTypeName

\* C1: when the last action is "listen" and the marker names an action of the
\* domain, the prediction has length num_actions, a 1 at that action's index
\* and 0 everywhere else.
C1_ListenPredictsMarker ==
    (phase = "predicted" /\ tracker.latest_action_name = ACTION_LISTEN_NAME /\ Known(marker))
        => /\ result.raised = "none"
           /\ result.prediction = OneHot(PositionOf(marker))

C1_Witness ==
    /\ phase = "predicted"
    /\ tracker.latest_action_name = ACTION_LISTEN_NAME
    /\ marker = "generic_coco"
    /\ result.prediction[1] = 1

\* C2: when the last executed action equals the marker and the last
\* ActionExecuted event is attributed to this policy, the prediction has a 1
\* at the index of "listen" and 0 everywhere else.
C2_MappedByThisPredictsListen ==
    (/\ phase = "predicted"
     /\ tracker.latest_action_name # None
     /\ tracker.latest_action_name = marker
     /\ AttributedToThis(tracker.last_action_event))
        => /\ result.raised = "none"
           /\ result.prediction = OneHot(PositionOf(ACTION_LISTEN_NAME))

C2_Witness ==
    /\ phase = "predicted"
    /\ tracker.latest_action_name = "generic_coco"
    /\ marker = "generic_coco"
    /\ tracker.last_action_event.policy = SelfPolicyName
    /\ result.prediction[0] = 1

C4_Original ==
    (phase = "predicted" /\ Truthy(marker) /\ ~Known(marker))
        => /\ result.raised = "none"
           /\ result.warned
           /\ result.prediction = AllZero

\* C4 amended: when the last action is "listen" and the marker names an
\* action the domain does not know, the prediction is all zero, a warning is
\* raised and no error is.
C4_UnknownAfterListenWarns ==
    (/\ phase = "predicted"
     /\ tracker.latest_action_name = ACTION_LISTEN_NAME
     /\ Truthy(marker) /\ ~Known(marker))
        => /\ result.raised = "none"
           /\ result.warned
           /\ result.prediction = AllZero

C4_Witness ==
    /\ phase = "predicted"
    /\ tracker.latest_action_name = ACTION_LISTEN_NAME
    /\ marker = UnlistedName
    /\ result.warned
    /\ result.prediction = AllZero

\* C5: a policy loaded from a path has the priority of the policy last
\* persisted to that path, and the default priority when none was persisted
\* there.
C5_PersistLoadRoundTrip ==
    loaded.valid
        => policy.priority =
               IF persisted[loaded.path].known
               THEN persisted[loaded.path].priority
               ELSE DefaultPriority

C5_Witness ==
    /\ loaded.valid
    /\ persisted[loaded.path].known
    /\ persisted[loaded.path].priority = 10
    /\ policy.priority = 10

C5_WitnessDefault ==
    /\ loaded.valid
    /\ loaded.path \in dirs
    /\ ~persisted[loaded.path].known
    /\ policy.priority = DefaultPriority

\* C6 as stated: after the events of one run of coco_run for a component are
\* applied in order, the marker is the component when the exchange reported it
\* unfinished and is empty when it reported it done.
C6_Original ==
    ran.valid => marker = (IF ran.done THEN "" ELSE ran.component)

\* C7 as stated: the context passed to the exchange holds exactly the slots
\* that hold a value, 0 and False included, each with its value.
C7_Original ==
    exchange_call.made
        => exchange_call.context =
               [k \in {n \in SlotNames : exchange_call.slots_before[n] \notin {None, ""}}
                   |-> exchange_call.slots_before[k]]

C9_Original ==
    (phase = "predicted" /\ ran.valid /\ ran.by_self)
        => /\ result.raised = "none"
           /\ result.prediction = OneHot(PositionOf(ACTION_LISTEN_NAME))

\* C9 amended: whenever a component action this policy predicted has just
\* run, the next prediction is "listen" with probability 1 if the marker
\* still names that action once the returned events are applied, and is all
\* zero otherwise.
C9_ListenWhileMarked ==
    (phase = "predicted" /\ ran.valid /\ ran.by_self)
        => /\ result.raised = "none"
           /\ result.prediction =
                  IF marker = ran.component
                  THEN OneHot(PositionOf(ACTION_LISTEN_NAME))
                  ELSE AllZero

C9_Witness ==
    /\ phase = "predicted"
    /\ ran.valid /\ ran.by_self /\ ~ran.done
    /\ marker = ran.component
    /\ result.prediction[0] = 1

C9_WitnessDone ==
    /\ phase = "predicted"
    /\ ran.valid /\ ran.by_self /\ ran.done
    /\ marker = ""
    /\ result.prediction = AllZero

====
